---- MODULE Spec2Model ----
(***************************************************************************)
(* Model of the onedriver item tree (package graph): DriveItem and its     *)
(* buffered content, the children cache, and the upload started by Flush.  *)
(*                                                                         *)
(* Objects are named: "root" is the root folder, "a" (file) and "d"        *)
(* (folder) are the items a listing of the root creates, "n" is a file     *)
(* made locally by NewDriveItem (empty remote ID).                         *)
(*                                                                         *)
(* A []byte is modelled as its backing array (arr, whose length is the     *)
(* capacity) and its length (dlen): Go lets s[:k] reach up to cap(s), and  *)
(* panics beyond it.  A run-time panic ends the process: ret.st = "PANIC"  *)
(* and no handler runs afterwards.                                         *)
(***************************************************************************)
EXTENDS Integers, Sequences, FiniteSets, Bags, TLC

\* ---- bounds ----
MaxCap == 2         \* largest capacity of a content buffer
MaxWrite == 1       \* longest byte sequence handed to Write
MaxUploads == 1     \* detached uploads in flight at once
MaxFlights == 2     \* detached uploads in flight at once where only Write and Flush run

\* ---- universe ----
Objs == {"root", "a", "d", "x", "n", "m"}
Files == {"a", "n"}
WByte == {1}                            \* the byte value callers write
IdOf == [o \in Objs |-> CASE o = "a" -> 1 [] o = "d" -> 2 [] o = "n" -> 3
                              [] o = "x" -> 5 [] o = "m" -> 6 [] OTHER -> 4]
\* the remote folder each name lives in: "x" is a file of the folder "d"
RemoteParent == [o \in Objs |-> IF o = "x" THEN "d" ELSE "root"]
InitRemote == <<1>>                     \* content of the remote file "a" at mount time

Min(x, y) == IF x < y THEN x ELSE y
Max(x, y) == IF x > y THEN x ELSE y
Zeros(k) == [j \in 1..k |-> 0]
SeqsUpTo(S, k) == UNION {[1..m -> S] : m \in 0..k}
Datas == SeqsUpTo(WByte, MaxWrite)
Offsets == 0..(MaxCap + 1)
ReadLens == {1, MaxCap}                 \* lengths of the buffers handed to Read

VARIABLES
  live,        \* the DriveItem objects constructed so far
  fh,          \* the file item this run's file operations address ("none" before the first)
  ID,          \* DriveItem.ID, 0 is the empty string
  Size,        \* DriveItem.Size
  hasChanges,  \* DriveItem.hasChanges
  hasData,     \* DriveItem.data # nil
  arr,         \* backing array of *DriveItem.data
  dlen,        \* len(*DriveItem.data)
  fetched,     \* DriveItem.children # nil
  children,    \* keys of DriveItem.children
  uploads,     \* bag of the goroutines started by Flush, each with its copy of the item
  rHas,        \* names of the items present remotely
  rContent,    \* remote content of the files
  net,         \* remote requests issued by the step just taken
  ret,         \* what the step just taken returned
  Parent,      \* DriveItem.Parent: the parent's ID, its path and the back-reference
  lookup,      \* the resolver calls of the step just taken, each with its result
  gc,          \* the concurrent GetChildren calls, each with its position and locals
  unflushed    \* history (kept by UploadSpec): items written since their last Flush

vars == <<live, fh, ID, Size, hasChanges, hasData, arr, dlen, fetched,
          children, uploads, rHas, rContent, net, ret, Parent, lookup, gc, unflushed>>

itemVars == <<ID, Size, hasChanges, hasData, arr, dlen>>
treeVars == <<live, fetched, children>>
remoteVars == <<rHas, rContent>>

Content(i) == SubSeq(arr[i], 1, dlen[i])
Cap(i) == Len(arr[i])
Running == ret.st # "PANIC"

Ret(op, i, st, n, b, kids, nilmap) ==
  [op |-> op, item |-> i, st |-> st, n |-> n, bytes |-> b, kids |-> kids, nilmap |-> nilmap]
RetSt(op, i, st) == Ret(op, i, st, 0, <<>>, {}, FALSE)

\* a run-time panic is not recovered by the handlers: the process ends
Crash(op, i) == RetSt(op, i, "PANIC")

IsDir(i) == i \in {"root", "d", "m"}

\* ---- strings ----
\* a string is the sequence of its atoms: "/" or a maximal run of word
\* characters or one other character; "/drive/root:" is the prefix the remote
\* puts before every parent path
DrivePrefix == <<"/", "drive", "/", "root:">>
TrimPrefix(s, p) ==
  IF Len(s) >= Len(p) /\ SubSeq(s, 1, Len(p)) = p THEN SubSeq(s, Len(p) + 1, Len(s)) ELSE s

\* DriveItem.Name: an item is named by its object name (the root is "root")
Name(i) == i
NoParent == [ID |-> 0, Path |-> <<>>, item |-> "none"]

\* ---- Path ----
PathOf(P, i) ==
  IF P[i].Path = <<>> /\ Name(i) = "root"
    THEN <<"/">>
    ELSE TrimPrefix(P[i].Path \o <<"/", Name(i)>>, DrivePrefix)
Path(i) == PathOf(Parent, i)

\* the parentReference of the descriptor the remote sends for c
RemoteParentPath(c) ==
  IF RemoteParent[c] = "root" THEN DrivePrefix ELSE DrivePrefix \o <<"/", RemoteParent[c]>>
NoCalls == [p \in {} |-> 0]

Init ==
  /\ live = {"root"}
  /\ fh = "none"
  /\ ID = [o \in Objs |-> IF o = "root" THEN IdOf["root"] ELSE 0]
  /\ Size = [o \in Objs |-> 0]
  /\ hasChanges = [o \in Objs |-> FALSE]
  /\ hasData = [o \in Objs |-> FALSE]
  /\ arr = [o \in Objs |-> <<>>]
  /\ dlen = [o \in Objs |-> 0]
  /\ fetched = [o \in Objs |-> FALSE]
  /\ children = [o \in Objs |-> {}]
  /\ uploads = EmptyBag
  /\ rHas = {"a", "d", "x"}
  /\ rContent = [f \in Files |-> IF f = "a" THEN InitRemote ELSE <<>>]
  /\ net = <<>>
  /\ ret = RetSt("mount", "root", "OK")
  /\ Parent = [o \in Objs |-> NoParent]
  /\ lookup = <<>>
  /\ gc = NoCalls
  /\ unflushed = {}

\* ---- NewDriveItem: a local file under the (resolved) root ----
NewDriveItem ==
  /\ Running
  /\ fetched["root"]
  /\ fh = "none"
  /\ live' = live \cup {"n"}
  /\ fh' = "n"
  /\ ID' = [ID EXCEPT !["n"] = 0]
  /\ Size' = [Size EXCEPT !["n"] = 0]
  /\ hasChanges' = [hasChanges EXCEPT !["n"] = FALSE]
  /\ hasData' = [hasData EXCEPT !["n"] = TRUE]
  /\ arr' = [arr EXCEPT !["n"] = <<>>]
  /\ dlen' = [dlen EXCEPT !["n"] = 0]
  /\ fetched' = [fetched EXCEPT !["n"] = TRUE]
  /\ children' = [children EXCEPT !["n"] = {}]
  /\ Parent' = [Parent EXCEPT !["n"] = [ID |-> ID["root"],
                                         Path |-> Parent["root"].Path \o <<"/", Name("root")>>,
                                         item |-> "root"]]
  /\ net' = <<>>
  /\ ret' = RetSt("NewDriveItem", "n", "OK")
  /\ UNCHANGED <<uploads, rHas, rContent>>
  /\ lookup' = <<>>
  /\ UNCHANGED <<gc, unflushed>>

\* ---- the item the file operations address ----
\* DriveItem is its own nodefs.File: the caller holds one item and calls its
\* methods.  A run addresses one file item: the one NewDriveItem returned, or
\* one taken from a children map.
Hold(i) ==
  /\ Running
  /\ fh = "none"
  /\ i \in live
  /\ i \in children["root"]
  /\ fh' = i
  /\ net' = <<>>
  /\ ret' = RetSt("Hold", i, "OK")
  /\ UNCHANGED <<live, itemVars, fetched, children, uploads, rHas, rContent>>
  /\ lookup' = <<>>
  /\ UNCHANGED <<Parent, gc, unflushed>>

\* ---- Read ----
\* the slice (*d.data)[off:end] of a buffer with backing array a and length l
ReadEnd(l, n, off) == IF off + n > l THEN l ELSE off + n
ReadPanics(l, n, off) == off > ReadEnd(l, n, off)
ReadBytes(a, l, n, off) == SubSeq(a, off + 1, ReadEnd(l, n, off))

Read(i, n, off) ==
  /\ Running
  /\ i \in live
  /\ i = fh
  /\ net' = <<>>
  /\ IF ~hasData[i] \/ ReadPanics(dlen[i], n, off)
       THEN ret' = Crash("Read", i)
       ELSE ret' = Ret("Read", i, "OK", 0, ReadBytes(arr[i], dlen[i], n, off), {}, FALSE)
  /\ UNCHANGED <<live, fh, itemVars, fetched, children, uploads, rHas, rContent>>
  /\ lookup' = <<>>
  /\ UNCHANGED <<Parent, gc, unflushed>>

\* ---- Write ----
\* capacity of a freshly allocated buffer of `need` bytes: the allocation is
\* exact, the least capacity a build can give; buffers with spare capacity
\* arise from Truncate
GrowCaps(need) == {need}

\* copy(dst, src) into a[off+1..l]
CopyInto(a, l, off, B) ==
  [j \in 1..Len(a) |-> IF j > off /\ j <= off + Len(B) /\ j <= l THEN B[j - off] ELSE a[j]]

\* mutant: Write always overwrites via append, also inside the current content
WriteOutcomes_AlwaysAppend(a, l, sz, B, off) ==
  IF off > Len(a)
    THEN {[st |-> "PANIC", arr |-> a, len |-> l]}
    ELSE IF off + Len(B) <= Len(a)
      THEN {[st |-> "OK", arr |-> CopyInto(a, off + Len(B), off, B), len |-> off + Len(B)]}
      ELSE {[st |-> "OK", arr |-> SubSeq(a, 1, off) \o B \o Zeros(c - off - Len(B)),
             len |-> off + Len(B)] : c \in GrowCaps(off + Len(B))}

\* the outcomes of Write's buffer update: status, backing array and length
WriteOutcomes(a, l, sz, B, off) ==
  IF off + Len(B) > sz - 1
    THEN IF off > Len(a)
           THEN {[st |-> "PANIC", arr |-> a, len |-> l]}
           ELSE IF off + Len(B) <= Len(a)
             THEN {[st |-> "OK", arr |-> CopyInto(a, off + Len(B), off, B), len |-> off + Len(B)]}
             ELSE {[st |-> "OK", arr |-> SubSeq(a, 1, off) \o B \o Zeros(c - off - Len(B)),
                    len |-> off + Len(B)] : c \in GrowCaps(off + Len(B))}
    ELSE IF off > l
           THEN {[st |-> "PANIC", arr |-> a, len |-> l]}
           ELSE {[st |-> "OK", arr |-> CopyInto(a, l, off, B), len |-> l]}

Write(i, B, off) ==
  /\ Running
  /\ i \in live
  /\ i = fh
  /\ net' = <<>>
  /\ IF ~hasData[i]
       THEN /\ ret' = Crash("Write", i)
            /\ UNCHANGED <<arr, dlen, Size, hasChanges>>
       ELSE \E w \in WriteOutcomes(arr[i], dlen[i], Size[i], B, off) :
              /\ Len(w.arr) <= MaxCap
              /\ IF w.st = "PANIC"
                   THEN /\ ret' = Crash("Write", i)
                        /\ UNCHANGED <<arr, dlen, Size, hasChanges>>
                   ELSE /\ arr' = [arr EXCEPT ![i] = w.arr]
                        /\ dlen' = [dlen EXCEPT ![i] = w.len]
                        /\ Size' = [Size EXCEPT ![i] = w.len]
                        /\ hasChanges' = [hasChanges EXCEPT ![i] = TRUE]
                        /\ ret' = Ret("Write", i, "OK", Len(B), <<>>, {}, FALSE)
  /\ UNCHANGED <<live, fh, ID, hasData, fetched, children, uploads, rHas, rContent>>
  /\ lookup' = <<>>
  /\ UNCHANGED <<Parent, gc>>

\* ---- Truncate ----
TruncPanics(a, size) == size > Len(a)

\* mutant: Truncate cuts the buffer but leaves the dirty flag alone
Truncate_NoDirty(i, size) ==
  /\ Running
  /\ i \in live
  /\ i = fh
  /\ net' = <<>>
  /\ IF ~hasData[i] \/ TruncPanics(arr[i], size)
       THEN /\ ret' = Crash("Truncate", i)
            /\ UNCHANGED <<dlen, Size>>
       ELSE /\ dlen' = [dlen EXCEPT ![i] = size]
            /\ Size' = [Size EXCEPT ![i] = size]
            /\ ret' = RetSt("Truncate", i, "OK")
  /\ UNCHANGED <<live, fh, ID, hasChanges, hasData, arr, fetched, children, uploads, rHas, rContent>>
  /\ lookup' = <<>>
  /\ UNCHANGED <<Parent, gc>>

\* mutant: Truncate cuts the buffer but does not update Size
Truncate_KeepsSize(i, size) ==
  /\ Running
  /\ i \in live
  /\ i = fh
  /\ net' = <<>>
  /\ IF ~hasData[i] \/ TruncPanics(arr[i], size)
       THEN /\ ret' = Crash("Truncate", i)
            /\ UNCHANGED <<dlen, hasChanges>>
       ELSE /\ dlen' = [dlen EXCEPT ![i] = size]
            /\ hasChanges' = [hasChanges EXCEPT ![i] = TRUE]
            /\ ret' = RetSt("Truncate", i, "OK")
  /\ UNCHANGED <<live, fh, ID, Size, hasData, arr, fetched, children, uploads, rHas, rContent>>
  /\ lookup' = <<>>
  /\ UNCHANGED <<Parent, gc>>

Truncate(i, size) ==
  /\ Running
  /\ i \in live
  /\ i = fh
  /\ net' = <<>>
  /\ IF ~hasData[i] \/ TruncPanics(arr[i], size)
       THEN /\ ret' = Crash("Truncate", i)
            /\ UNCHANGED <<dlen, Size, hasChanges>>
       ELSE /\ dlen' = [dlen EXCEPT ![i] = size]
            /\ Size' = [Size EXCEPT ![i] = size]
            /\ hasChanges' = [hasChanges EXCEPT ![i] = TRUE]
            /\ ret' = RetSt("Truncate", i, "OK")
  /\ UNCHANGED <<live, fh, ID, hasData, arr, fetched, children, uploads, rHas, rContent>>
  /\ lookup' = <<>>
  /\ UNCHANGED <<Parent, gc>>

\* ---- Utimens ----
\* sets ModifyTime only; the modification time is not part of this model
Utimens(i) ==
  /\ Running
  /\ i \in live
  /\ i = fh
  /\ net' = <<>>
  /\ ret' = RetSt("Utimens", i, "OK")
  /\ UNCHANGED <<live, fh, itemVars, fetched, children, uploads, rHas, rContent>>
  /\ lookup' = <<>>
  /\ UNCHANGED <<Parent, gc, unflushed>>

\* ---- GetChildren ----
\* the entries the remote lists for a folder, and the size it reports for each
RemoteListing(i) == {c \in rHas : RemoteParent[c] = i}
RemoteSize(c) == IF c \in Files THEN Len(rContent[c]) ELSE 0

\* mutant: the "children != nil" test is missing
Cached_NoNilTest(i) == ~IsDir(i)

\* GetChildren returns the cache without a remote call
Cached(i) == ~IsDir(i) \/ fetched[i]

GetChildrenCached(i) ==
  /\ Running
  /\ i \in live
  /\ Cached(i)
  /\ net' = <<>>
  /\ ret' = Ret("GetChildren", i, "OK", 0, <<>>, children[i], ~fetched[i])
  /\ UNCHANGED <<live, fh, itemVars, fetched, children, uploads, rHas, rContent>>
  /\ lookup' = <<>>
  /\ UNCHANGED <<Parent, gc, unflushed>>

\* mutant: a failed listing leaves an empty, non-nil children map behind
GetChildrenFail_Poisons(i) ==
  /\ Running
  /\ i \in live
  /\ ~Cached(i)
  /\ fetched' = [fetched EXCEPT ![i] = TRUE]
  /\ net' = <<[kind |-> "list", item |-> i]>>
  /\ ret' = Ret("GetChildren", i, "ERR", 0, <<>>, {}, TRUE)
  /\ UNCHANGED <<live, fh, itemVars, children, uploads, rHas, rContent>>
  /\ lookup' = <<>>
  /\ UNCHANGED <<Parent, gc, unflushed>>

GetChildrenFail(i) ==
  /\ Running
  /\ i \in live
  /\ ~Cached(i)
  /\ net' = <<[kind |-> "list", item |-> i]>>
  /\ ret' = Ret("GetChildren", i, "ERR", 0, <<>>, {}, TRUE)
  /\ UNCHANGED <<live, fh, itemVars, fetched, children, uploads, rHas, rContent>>
  /\ lookup' = <<>>
  /\ UNCHANGED <<Parent, gc, unflushed>>

GetChildrenFill(i) ==
  /\ Running
  /\ i \in live
  /\ ~Cached(i)
  /\ net' = <<[kind |-> "list", item |-> i]>>
  /\ LET kids == RemoteListing(i) IN
       /\ fetched' = [fetched EXCEPT ![i] = TRUE]
       /\ children' = [o \in Objs |-> IF o = i THEN kids ELSE IF o \in kids THEN {} ELSE children[o]]
       /\ live' = live \cup kids
       /\ Parent' = [o \in Objs |-> IF o \in kids
                                       THEN [ID |-> IdOf[i], Path |-> RemoteParentPath(o), item |-> i]
                                       ELSE Parent[o]]
       /\ ID' = [o \in Objs |-> IF o \in kids THEN IdOf[o] ELSE ID[o]]
       /\ Size' = [o \in Objs |-> IF o \in kids THEN RemoteSize(o) ELSE Size[o]]
       /\ hasChanges' = [o \in Objs |-> IF o \in kids THEN FALSE ELSE hasChanges[o]]
       /\ hasData' = [o \in Objs |-> IF o \in kids THEN FALSE ELSE hasData[o]]
       /\ arr' = [o \in Objs |-> IF o \in kids THEN <<>> ELSE arr[o]]
       /\ dlen' = [o \in Objs |-> IF o \in kids THEN 0 ELSE dlen[o]]
       /\ ret' = Ret("GetChildren", i, "OK", 0, <<>>, kids, FALSE)
  /\ UNCHANGED <<fh, uploads, rHas, rContent>>
  /\ lookup' = <<>>
  /\ UNCHANGED <<gc, unflushed>>

GetChildren(i) == GetChildrenCached(i) \/ GetChildrenFail(i) \/ GetChildrenFill(i)

\* ---- FetchContent ----
\* the remote serves the content of a known file ID
RemoteServes(i) == i \in Files /\ ID[i] # 0 /\ i \in rHas

\* a copy made by Flush keeps the slice header it was made with: once the item's
\* data pointer is replaced, the copy's content is frozen at the old header's
Frozen(u) ==
  IF u.pc = "start" /\ u.shared
    THEN [u EXCEPT !.shared = FALSE, !.body = Content(u.item)]
    ELSE u
FreezeCopies(i) == BagOfAll(Frozen, uploads)

FetchContentFail(i) ==
  /\ Running
  /\ i \in live
  /\ i = fh
  /\ net' = <<[kind |-> "get", item |-> i]>>
  /\ ret' = RetSt("FetchContent", i, "ERR")
  /\ UNCHANGED <<live, fh, itemVars, fetched, children, uploads, rHas, rContent>>
  /\ lookup' = <<>>
  /\ UNCHANGED <<Parent, gc, unflushed>>

FetchContentOK(i) ==
  /\ Running
  /\ i \in live
  /\ i = fh
  /\ RemoteServes(i)
  /\ net' = <<[kind |-> "get", item |-> i]>>
  /\ \E c \in GrowCaps(Len(rContent[i])) :
       arr' = [arr EXCEPT ![i] = rContent[i] \o Zeros(c - Len(rContent[i]))]
  /\ dlen' = [dlen EXCEPT ![i] = Len(rContent[i])]
  /\ hasData' = [hasData EXCEPT ![i] = TRUE]
  /\ uploads' = FreezeCopies(i)
  /\ ret' = RetSt("FetchContent", i, "OK")
  /\ UNCHANGED <<live, fh, ID, Size, hasChanges, fetched, children, rHas, rContent>>
  /\ lookup' = <<>>
  /\ UNCHANGED <<Parent, gc, unflushed>>

FetchContent(i) == FetchContentFail(i) \/ FetchContentOK(i)

\* ---- Flush and Upload ----
\* Flush has a value receiver: `go d.Upload(auth)` runs Upload on Flush's copy
\* of the item.  The copy has the item's ID as it was, and the item's data
\* pointer (shared: it sees the buffer as the item has it)
FlushCopy(i) ==
  [item |-> i, id |-> ID[i], shared |-> TRUE, pc |-> "start", body |-> <<>>]

\* mutant: Flush uploads whether or not the item is dirty
FlushUploads_Always(i) == TRUE

\* "if d.hasChanges": a dirty item is uploaded
FlushUploads(i) == hasChanges[i]

\* Flush, with at most k goroutines in flight
FlushWithin(i, k) ==
  /\ Running
  /\ i \in live
  /\ i = fh
  /\ net' = <<>>
  /\ ret' = RetSt("Flush", i, "OK")
  /\ IF FlushUploads(i)
       THEN /\ BagCardinality(uploads) < k
            /\ uploads' = uploads (+) SetToBag({FlushCopy(i)})
       ELSE UNCHANGED uploads
  /\ UNCHANGED <<live, fh, itemVars, fetched, children, rHas, rContent>>
  /\ lookup' = <<>>
  /\ UNCHANGED <<Parent, gc>>

Flush(i) == FlushWithin(i, MaxUploads)

\* the request Upload builds: addressed by (parent ID, name) when the ID is empty
PutRequest(i, id) ==
  IF id = 0 THEN [kind |-> "putByPath", item |-> i]
            ELSE [kind |-> "putByID", item |-> i]

\* the remote accepts a put by path always, a put by ID when the ID exists
RemoteAccepts(i, id) == id = 0 \/ i \in rHas

\* the goroutine reaches Put: the body is read through the copy's data pointer
Sent(u) == [u EXCEPT !.pc = "sent", !.body = IF u.shared THEN Content(u.item) ELSE u.body]

UploadSend(u) ==
  /\ Running
  /\ BagIn(u, uploads)
  /\ u.pc = "start"
  /\ uploads' = (uploads (-) SetToBag({u})) (+) SetToBag({Sent(u)})
  /\ net' = <<PutRequest(u.item, u.id)>>
  /\ ret' = RetSt("UploadSend", u.item, "OK")
  /\ UNCHANGED <<live, fh, itemVars, fetched, children, rHas, rContent>>
  /\ lookup' = <<>>
  /\ UNCHANGED <<Parent, gc, unflushed>>

\* mutant: a failed upload drops the buffered content
UploadFail_DropsBuffer(u) ==
  /\ Running
  /\ BagIn(u, uploads)
  /\ u.pc = "sent"
  /\ uploads' = uploads (-) SetToBag({u})
  /\ dlen' = [dlen EXCEPT ![u.item] = 0]
  /\ net' = <<>>
  /\ ret' = RetSt("UploadFail", u.item, "ERR")
  /\ UNCHANGED <<live, fh, ID, Size, hasChanges, hasData, arr, fetched, children, rHas, rContent>>
  /\ lookup' = <<>>
  /\ UNCHANGED <<Parent, gc, unflushed>>

UploadFail(u) ==
  /\ Running
  /\ BagIn(u, uploads)
  /\ u.pc = "sent"
  /\ uploads' = uploads (-) SetToBag({u})
  /\ net' = <<>>
  /\ ret' = RetSt("UploadFail", u.item, "ERR")
  /\ UNCHANGED <<live, fh, itemVars, fetched, children, rHas, rContent>>
  /\ lookup' = <<>>
  /\ UNCHANGED <<Parent, gc, unflushed>>

\* the Put succeeds; json.Unmarshal(resp, d) then fills d, which is Flush's copy
\* of the item (Flush is the only caller of Upload): the ID, Name and Size of
\* the response land in the copy and are dropped with it
UploadOK(u) ==
  /\ Running
  /\ BagIn(u, uploads)
  /\ u.pc = "sent"
  /\ RemoteAccepts(u.item, u.id)
  /\ rHas' = rHas \cup {u.item}
  /\ rContent' = [rContent EXCEPT ![u.item] = u.body]
  /\ uploads' = uploads (-) SetToBag({u})
  /\ net' = <<>>
  /\ ret' = Ret("UploadOK", u.item, "OK", 0, u.body, {}, FALSE)
  /\ UNCHANGED <<live, fh, itemVars, fetched, children>>
  /\ lookup' = <<>>
  /\ UNCHANGED <<Parent, gc, unflushed>>

Next ==
  \/ NewDriveItem
  \/ \E i \in Files : Hold(i)
  \/ \E i \in {"root"} \cup Files : GetChildren(i)
  \/ \E i \in Files : FetchContent(i)
  \/ \E i \in Files, n \in ReadLens, off \in Offsets : Read(i, n, off)
  \/ \E i \in Files, B \in Datas, off \in Offsets : Write(i, B, off) /\ UNCHANGED unflushed
  \/ \E i \in Files, size \in Offsets : Truncate(i, size) /\ UNCHANGED unflushed
  \/ \E i \in Files : Utimens(i)
  \/ \E i \in Files : Flush(i) /\ UNCHANGED unflushed
  \/ \E u \in BagToSet(uploads) : UploadSend(u)
  \/ \E u \in BagToSet(uploads) : UploadFail(u)
  \/ \E u \in BagToSet(uploads) : UploadOK(u)

Spec == Init /\ [][Next]_vars

\* ---- setParent and the trees the code builds ----
setParent(c, newParent) ==
  /\ Running
  /\ c \in live \ {"root"}
  /\ newParent \in live \ {c}
  /\ IsDir(newParent)
  /\ Parent' = [Parent EXCEPT ![c] = [ID |-> ID[newParent], Path |-> Path(newParent),
                                      item |-> newParent]]
  /\ net' = <<>>
  /\ lookup' = <<>>
  /\ ret' = RetSt("setParent", c, "OK")
  /\ UNCHANGED <<live, fh, itemVars, fetched, children, uploads, rHas, rContent, gc, unflushed>>

\* the trees built by children listings, NewDriveItem and setParent
PathNext ==
  \/ \E i \in {"root", "d"} : GetChildren(i)
  \/ NewDriveItem
  \/ \E c \in Objs, newParent \in Objs : setParent(c, newParent)

PathSpec == Init /\ [][PathNext]_vars
\* ---- properties ----
FileItemVars(i) == <<ID[i], Size[i], hasChanges[i], hasData[i], arr[i], dlen[i]>>
ListCall(i) == <<[kind |-> "list", item |-> i]>>

\* C1: Flush on a dirty item starts exactly one detached upload of that item
\* and returns OK while that upload has not yet run (nothing was sent, nothing
\* changed remotely or in the item); Flush on a clean item starts no upload and
\* returns OK.
C1_FlushDetaches ==
  [][ret'.op = "Flush" =>
        \A i \in Objs : (i = ret'.item) =>
          /\ ret'.st = "OK"
          /\ net' = <<>>
          /\ FileItemVars(i)' = FileItemVars(i)
          /\ UNCHANGED <<rHas, rContent>>
          /\ IF hasChanges[i]
               THEN /\ BagCardinality(uploads') = BagCardinality(uploads) + 1
                    /\ \E u \in BagToSet(uploads') :
                          /\ u.item = i /\ u.pc = "start"
                          /\ uploads' = uploads (+) SetToBag({u})
               ELSE uploads' = uploads]_vars

\* Flush has returned OK and the upload it started has not yet been sent
C1_Witness ==
  /\ ret.op = "Flush" /\ ret.st = "OK"
  /\ \E u \in BagToSet(uploads) : u.item = ret.item /\ u.pc = "start"

\* C2: when an upload succeeds (the upload started by Flush included) the
\* item held in the tree has its remote ID and Size set from the response and
\* its buffered content unchanged; in particular its ID is non-empty afterwards.
C2_UploadRefreshesItem ==
  [][(ret'.op = "UploadOK" /\ ret'.st = "OK") =>
        \A i \in Objs : (i = ret'.item) =>
          /\ ID'[i] # 0
          /\ ID'[i] = IdOf[i]
          /\ Size'[i] = Len(ret'.bytes)
          /\ arr'[i] = arr[i]
          /\ dlen'[i] = dlen[i]]_vars

\* C3: a failed upload leaves the item's content, Size, ID and dirty flag as
\* they were; after a failed Flush-started upload the item is still dirty, so
\* the next Flush starts an upload, and an upload sends the bytes the buffer
\* holds when it is sent.
C3_FailedUploadKeepsItem ==
  [][/\ (ret'.op = "UploadFail" /\ ret'.st = "ERR") =>
          \A i \in Objs : (i = ret'.item) =>
            /\ FileItemVars(i)' = FileItemVars(i)
            /\ UNCHANGED <<rHas, rContent>>
            /\ hasChanges'[i] /\ FlushUploads(i)'
     /\ ret'.op = "UploadSend" =>
          \A u \in BagToSet(uploads) :
            (UploadSend(u) /\ u.shared) =>
               \E v \in BagToSet(uploads') :
                  /\ v.pc = "sent" /\ v.body = Content(u.item)
                  /\ uploads' = (uploads (-) SetToBag({u})) (+) SetToBag({v})]_vars

\* a Flush-started upload has failed and the item still holds its bytes, dirty
C3_Witness ==
  /\ ret.op = "UploadFail" /\ ret.st = "ERR"
  /\ hasChanges[ret.item]
  /\ dlen[ret.item] >= 1

\* C4: items created by a children listing are clean; after a Write or Truncate
\* that returns, the item is dirty; a dirty item stays dirty through every
\* operation.
C4_DirtyLifecycle ==
  [][/\ (ret'.op = "GetChildren" /\ ret'.st = "OK") =>
          \A c \in live' \ live : ~hasChanges'[c]
     /\ (ret'.op \in {"Write", "Truncate"} /\ ret'.st = "OK") => hasChanges'[ret'.item]
     /\ \A i \in live : hasChanges[i] => hasChanges'[i]]_vars

\* the fetched file is dirty after a successful upload of its content
C4_Witness ==
  /\ ret.op = "UploadOK" /\ ret.st = "OK"
  /\ ret.item = "a"
  /\ hasChanges["a"]

\* C5: GetChildren on an unfetched directory that succeeds issues exactly one
\* listing call and caches the listing; on a fetched directory it issues no
\* remote call and returns the cached set, which never changes; on a
\* non-directory it issues no remote call.
C5_ChildrenFetchedOnce ==
  [][/\ ret'.op = "GetChildren" =>
          \A i \in Objs : (i = ret'.item) =>
            /\ ~IsDir(i) => net' = <<>>
            /\ (IsDir(i) /\ fetched[i]) =>
                  /\ net' = <<>>
                  /\ ret'.st = "OK"
                  /\ ~ret'.nilmap
                  /\ ret'.kids = children[i]
            /\ (IsDir(i) /\ ~fetched[i] /\ ret'.st = "OK") =>
                  /\ net' = ListCall(i)
                  /\ fetched'[i]
                  /\ children'[i] = RemoteListing(i)
                  /\ ret'.kids = children'[i]
     /\ \A d \in Objs : fetched[d] => fetched'[d] /\ children'[d] = children[d]]_vars

\* a GetChildren on the already fetched root returned its two children
\* without a remote call
C5_Witness ==
  /\ ret.op = "GetChildren" /\ ret.item = "root" /\ ret.st = "OK"
  /\ net = <<>>
  /\ ret.kids = {"a", "d"}

\* C6: a failed listing call is returned as an error and leaves the children
\* map nil; GetChildren on a directory with a nil map always issues a listing
\* call.
C6_FailedListingRetried ==
  [][ret'.op = "GetChildren" =>
        \A i \in Objs : (i = ret'.item) =>
          /\ ret'.st = "ERR" =>
                /\ ~fetched[i] /\ ~fetched'[i]
                /\ ret'.nilmap
                /\ children'[i] = children[i]
          /\ (IsDir(i) /\ ~fetched[i]) => net' = ListCall(i)]_vars

\* a listing of the root has failed and the root is still unfetched
C6_Witness ==
  /\ ret.op = "GetChildren" /\ ret.st = "ERR" /\ ret.item = "root"
  /\ ~fetched["root"]
  /\ net = ListCall("root")

C8_WriteBeyondLength ==
  [][ret'.op = "Write" =>
      \A i \in {fh}, B \in Datas, off \in Offsets :
        (hasData[i] /\ off > dlen[i] /\ Write(i, B, off)) =>
           /\ ret'.st = "OK"
           /\ dlen'[i] = off + Len(B)
           /\ SubSeq(arr'[i], 1, dlen[i]) = SubSeq(arr[i], 1, dlen[i])]_vars

\* C9: Read on an item with buffered content returns OK for every offset, with
\* the bytes from off to min(off+len(buf), length), issues no remote call and
\* changes no item state.
C9_ReadAlwaysSucceeds ==
  [][ret'.op = "Read" =>
      \A i \in {fh}, n \in ReadLens, off \in Offsets :
        (hasData[i] /\ Read(i, n, off)) =>
           /\ ret'.st = "OK"
           /\ ret'.bytes = SubSeq(Content(i), off + 1, Min(off + n, dlen[i]))
           /\ net' = <<>>
           /\ UNCHANGED <<itemVars, rHas, rContent, uploads>>]_vars

\* C10: Truncate(size) with size <= length returns OK, leaves the first size
\* bytes as content, Size = size and the item dirty; no remote call is issued.
C10_TruncateCuts ==
  [][ret'.op = "Truncate" =>
      \A i \in {fh}, size \in Offsets :
        (hasData[i] /\ size <= dlen[i] /\ Truncate(i, size)) =>
           /\ ret'.op = "Truncate" /\ ret'.st = "OK"
           /\ SubSeq(arr'[i], 1, dlen'[i]) = SubSeq(Content(i), 1, size)
           /\ dlen'[i] = size
           /\ Size'[i] = size
           /\ hasChanges'[i]
           /\ net' = <<>>
           /\ UNCHANGED <<rHas, rContent>>]_vars

\* a Truncate has cut a buffer to a shorter, non-empty content
C10_Witness ==
  /\ ret.op = "Truncate" /\ ret.st = "OK"
  /\ dlen[ret.item] >= 1
  /\ dlen[ret.item] < Cap(ret.item)
  /\ Size[ret.item] = dlen[ret.item]

\* ---- the filesystem adapter (FuseFs) ----
\* the names the kernel hands to the adapter: relative, as sequences of atoms
ignoredFiles ==
  { <<"/", "BDMV">>, <<"/", ".", "Trash">>, <<"/", ".", "Trash", "-", "1000">>,
    <<"/", ".", "xdg", "-", "volume", "-", "info">>, <<"/", "autorun", ".", "inf">>,
    <<"/", ".", "localized">>, <<"/", ".", "DS_Store">>, <<"/", ".", "_", ".">>,
    <<"/", ".", "hidden">> }

\* mutant: the loop gives up after the first entry
ignore_FirstOnly(path) == path = <<"/", "BDMV">>

ignore(path) == path \in ignoredFiles

\* name = "/" + name
Abs(name) == <<"/">> \o name

DenyNames == {Tail(q) : q \in ignoredFiles}
FsNames == {<<>>, <<"a">>, <<"d">>, <<"d", "/", "x">>, <<"m">>, <<"zz">>}
\* the kernel opens files and removes directories
OpenNames == {<<"a">>, <<"d", "/", "x">>, <<"zz">>}
RmNames == {<<"d">>, <<"m">>, <<"zz">>}
MkNames == {<<"m">>, <<"m", "/">>, <<"d">>, <<"d", "/", "x">>, <<"my", "-", "m">>, <<"m", ".">>}
O_ANYWRITE == {"O_WRONLY", "O_RDWR", "O_APPEND", "O_CREAT", "O_TRUNC"}
FlagSets == {{}, {"O_NONBLOCK"}, {"O_WRONLY"}, {"O_RDWR", "O_NONBLOCK"}, {"O_APPEND"}}

\* ---- the resolver: GetItem and GetChildren by path ----
\* the segments of a path: the runs of atoms between the "/"
RECURSIVE SplitPath(_)
SplitPath(q) ==
  IF q = <<>> THEN <<>>
  ELSE IF Head(q) = "/" THEN SplitPath(Tail(q))
  ELSE LET stops == {k \in 1..Len(q) : q[k] = "/"}
           k == IF stops = {} THEN Len(q) + 1 ELSE CHOOSE j \in stops : \A l \in stops : j <= l
       IN <<SubSeq(q, 1, k - 1)>> \o SplitPath(SubSeq(q, k, Len(q)))

\* the item tree as a value
Tree ==
  [live |-> live, fetched |-> fetched, children |-> children, ID |-> ID, Size |-> Size,
   Parent |-> Parent]

\* the tree after GetChildren has filled the children map of i from a listing
ListInto(T, i) ==
  LET kids == RemoteListing(i) IN
    [live |-> T.live \cup kids,
     fetched |-> [T.fetched EXCEPT ![i] = TRUE],
     children |-> [o \in Objs |-> IF o = i THEN kids ELSE IF o \in kids THEN {} ELSE T.children[o]],
     ID |-> [o \in Objs |-> IF o \in kids THEN IdOf[o] ELSE T.ID[o]],
     Size |-> [o \in Objs |-> IF o \in kids THEN RemoteSize(o) ELSE T.Size[o]],
     Parent |-> [o \in Objs |-> IF o \in kids
                                  THEN [ID |-> IdOf[i], Path |-> RemoteParentPath(o), item |-> i]
                                  ELSE T.Parent[o]]]

Resolved(st, i, T, calls) == [st |-> st, item |-> i, T |-> T, net |-> calls]

\* walk down from cur along segs, calling GetChildren at each level: the
\* result is the item ("OK"), no item at that path ("NOTFOUND"), or the error
\* of a listing call that failed ("ERR")
RECURSIVE Walk(_, _, _, _)
Walk(T, cur, segs, calls) ==
  IF segs = <<>> THEN {Resolved("OK", cur, T, calls)}
  ELSE LET seg == Head(segs)
           Down(T2, calls2) ==
             IF Len(seg) = 1 /\ seg[1] \in T2.children[cur]
               THEN Walk(T2, seg[1], Tail(segs), calls2)
               ELSE {Resolved("NOTFOUND", "none", T2, calls2)}
           listing == calls \o <<[kind |-> "list", item |-> cur]>>
       IN IF ~IsDir(cur) \/ T.fetched[cur]
            THEN Down(T, calls)
            ELSE {Resolved("ERR", "none", T, listing)} \cup Down(ListInto(T, cur), listing)

\* GetItem(path, auth): the item at path, or an error
GetItem(path) == Walk(Tree, "root", SplitPath(path), <<>>)

\* GetChildren(path, auth): the children map of the item at path, or an error
GetChildrenAt(path) ==
  UNION {IF r.st # "OK" THEN {r}
         ELSE IF ~IsDir(r.item) \/ r.T.fetched[r.item] THEN {r}
         ELSE LET listing == r.net \o <<[kind |-> "list", item |-> r.item]>> IN
                {Resolved("ERR", "none", r.T, listing),
                 Resolved("OK", r.item, ListInto(r.T, r.item), listing)}
         : r \in GetItem(path)}

\* what the step's resolver call was asked and what it returned
Lookup(path, r) == <<[path |-> path, res |-> r.st]>>

\* the state after the resolver has returned r
Install(r) ==
  /\ live' = r.T.live
  /\ fetched' = r.T.fetched
  /\ children' = r.T.children
  /\ ID' = r.T.ID
  /\ Size' = r.T.Size
  /\ Parent' = r.T.Parent

fsFixed == <<fh, hasChanges, hasData, arr, dlen, uploads, rContent, gc, unflushed>>

\* ---- GetAttr ----
FakeSize(T, i) == IF IsDir(i) THEN 4096 ELSE T.Size[i]

GetAttr(name) ==
  /\ Running
  /\ IF ignore(Abs(name))
       THEN /\ ret' = RetSt("GetAttr", "none", "ENOENT")
            /\ net' = <<>>
            /\ lookup' = <<>>
            /\ UNCHANGED <<live, fetched, children, ID, Size, Parent>>
       ELSE \E r \in GetItem(Abs(name)) :
              /\ Install(r)
              /\ net' = r.net
              /\ lookup' = Lookup(Abs(name), r)
              /\ ret' = IF r.st # "OK"
                          THEN RetSt("GetAttr", "none", "ENOENT")
                          ELSE Ret("GetAttr", r.item, "OK", FakeSize(r.T, r.item), <<>>, {}, FALSE)
  /\ UNCHANGED <<rHas, fsFixed>>

\* ---- Chown, Chmod ----
Chown(name) ==
  /\ Running
  /\ ret' = RetSt("Chown", "none", "EPERM")
  /\ net' = <<>>
  /\ lookup' = <<>>
  /\ UNCHANGED <<live, fetched, children, ID, Size, Parent, rHas, fsFixed>>

Chmod(name) ==
  /\ Running
  /\ ret' = RetSt("Chmod", "none", "EPERM")
  /\ net' = <<>>
  /\ lookup' = <<>>
  /\ UNCHANGED <<live, fetched, children, ID, Size, Parent, rHas, fsFixed>>

\* ---- OpenDir ----
OpenDir(name) ==
  /\ Running
  /\ \E r \in GetChildrenAt(Abs(name)) :
       /\ Install(r)
       /\ net' = r.net
       /\ lookup' = Lookup(Abs(name), r)
       /\ ret' = IF r.st # "OK"
                   THEN RetSt("OpenDir", "none", "ENOENT")
                   ELSE Ret("OpenDir", r.item, "OK", 0, <<>>, r.T.children[r.item], FALSE)
  /\ UNCHANGED <<rHas, fsFixed>>

\* ---- Mkdir ----
IsWord(atom) == atom \notin {"/", ".", "-"}

\* "remove trailing slash (if) exists"
StripSlash(q) == IF q[Len(q)] = "/" THEN SubSeq(q, 1, Len(q) - 1) ELSE q

\* regexp `\w+$`: FindStringIndex(name)[0], the start of the trailing run of
\* word characters, counted in atoms; -1 when there is no match (nil)
FindStringIndex(q) == IF q # <<>> /\ IsWord(q[Len(q)]) THEN Len(q) - 1 ELSE -1

\* the remote folder a parent path names, "none" when there is none
RemoteFolderAt(q) ==
  IF q = <<"/">> THEN "root"
  ELSE IF q = <<"/", "d", "/">> /\ "d" \in rHas THEN "d"
  ELSE "none"

\* the remote creates the folder when the parent exists and the name is free
RemoteCreates(parent, child) ==
  /\ Len(child) = 1
  /\ child[1] \in Objs \ {"root"}
  /\ IsDir(child[1])
  /\ RemoteFolderAt(parent) = RemoteParent[child[1]]
  /\ child[1] \notin rHas

MkdirCall(parent, child, ok) == [kind |-> "mkdir", parent |-> parent, name |-> child, ok |-> ok]

Mkdir(name) ==
  /\ Running
  /\ lookup' = <<>>
  /\ LET q == StripSlash(Abs(name))
         split == FindStringIndex(q)
     IN IF split < 0
          THEN /\ ret' = Crash("Mkdir", "none")
               /\ net' = <<>>
               /\ UNCHANGED rHas
          ELSE LET parent == SubSeq(q, 1, split)
                   child == SubSeq(q, split + 1, Len(q))
               IN \/ /\ net' = <<MkdirCall(parent, child, FALSE)>>
                     /\ ret' = RetSt("Mkdir", "none", "EREMOTEIO")
                     /\ UNCHANGED rHas
                  \/ /\ RemoteCreates(parent, child)
                     /\ net' = <<MkdirCall(parent, child, TRUE)>>
                     /\ ret' = RetSt("Mkdir", "none", "OK")
                     /\ rHas' = rHas \cup {child[1]}
  /\ UNCHANGED <<live, fetched, children, ID, Size, Parent, fsFixed>>

\* ---- Rmdir ----
\* what a remote delete of c removes: c and what it holds
RemoteSubtree(c) == {c} \cup {o \in rHas : RemoteParent[o] = c}
RemoteDeletes(T, i) == i # "root" /\ T.ID[i] # 0 /\ i \in rHas

Rmdir(name) ==
  /\ Running
  /\ \E r \in GetItem(Abs(name)) :
       /\ Install(r)
       /\ lookup' = Lookup(Abs(name), r)
       /\ IF r.st # "OK"
            THEN /\ net' = r.net
                 /\ ret' = RetSt("Rmdir", "none", "EREMOTEIO")
                 /\ UNCHANGED rHas
            ELSE \/ /\ net' = r.net \o <<[kind |-> "delete", item |-> r.item, ok |-> FALSE]>>
                    /\ ret' = RetSt("Rmdir", r.item, "EREMOTEIO")
                    /\ UNCHANGED rHas
                 \/ /\ RemoteDeletes(r.T, r.item)
                    /\ net' = r.net \o <<[kind |-> "delete", item |-> r.item, ok |-> TRUE]>>
                    /\ ret' = RetSt("Rmdir", r.item, "OK")
                    /\ rHas' = rHas \ RemoteSubtree(r.item)
  /\ UNCHANGED fsFixed

\* ---- Open ----
AnyWrite(flags) == flags \cap O_ANYWRITE # {}
RemoteContent(i) == IF i \in Files THEN rContent[i] ELSE <<>>
RemoteServesContent(T, i) == ~IsDir(i) /\ T.ID[i] # 0 /\ i \in rHas

\* mutant: the content is fetched before the flags are looked at
Open_FetchFirst(name, flags) ==
  /\ Running
  /\ \E r \in GetItem(Abs(name)) :
       /\ Install(r)
       /\ lookup' = Lookup(Abs(name), r)
       /\ IF r.st # "OK"
            THEN /\ net' = r.net
                 /\ ret' = RetSt("Open", "none", "ENOENT")
            ELSE \/ /\ net' = r.net \o <<[kind |-> "content", item |-> r.item, ok |-> FALSE]>>
                    /\ ret' = RetSt("Open", r.item, "ENOENT")
                 \/ /\ RemoteServesContent(r.T, r.item)
                    /\ net' = r.net \o <<[kind |-> "content", item |-> r.item, ok |-> TRUE]>>
                    /\ ret' = IF AnyWrite(flags)
                                THEN RetSt("Open", r.item, "EPERM")
                                ELSE Ret("Open", r.item, "OK", 0, RemoteContent(r.item), {}, FALSE)
  /\ UNCHANGED <<rHas, fsFixed>>

Open(name, flags) ==
  /\ Running
  /\ \E r \in GetItem(Abs(name)) :
       /\ Install(r)
       /\ lookup' = Lookup(Abs(name), r)
       /\ IF r.st # "OK"
            THEN /\ net' = r.net
                 /\ ret' = RetSt("Open", "none", "ENOENT")
            ELSE IF AnyWrite(flags)
              THEN /\ net' = r.net
                   /\ ret' = RetSt("Open", r.item, "EPERM")
              ELSE \/ /\ net' = r.net \o <<[kind |-> "content", item |-> r.item, ok |-> FALSE]>>
                      /\ ret' = RetSt("Open", r.item, "ENOENT")
                   \/ /\ RemoteServesContent(r.T, r.item)
                      /\ net' = r.net \o <<[kind |-> "content", item |-> r.item, ok |-> TRUE]>>
                      /\ ret' = Ret("Open", r.item, "OK", 0, RemoteContent(r.item), {}, FALSE)
  /\ UNCHANGED <<rHas, fsFixed>>

FsNext ==
  \/ \E name \in FsNames \cup DenyNames : GetAttr(name)
  \/ \E name \in FsNames : Chown(name)
  \/ \E name \in FsNames : Chmod(name)
  \/ \E name \in FsNames : OpenDir(name)
  \/ \E name \in MkNames : Mkdir(name)
  \/ \E name \in RmNames : Rmdir(name)
  \/ \E name \in OpenNames, flags \in FlagSets : Open(name, flags)

FsSpec == Init /\ [][FsNext]_vars

\* ---- GetChildren, statement by statement ----
\* The kernel interface runs every request on its own goroutine, and nothing
\* in GetChildren is locked: two calls on the same directory interleave at the
\* statements.  Each call is at "idle" (not started), "get" (the nil test is
\* passed, the listing is being fetched), "make" (the listing has arrived),
\* "fill" (the map is made, todo are the children still to insert) or "done"
\* (returned: seen are the keys of the map it returned, err the error).
Procs == {"p1", "p2"}
RaceDir == "root"
Call(pc, todo, seen, err) == [pc |-> pc, todo |-> todo, seen |-> seen, err |-> err]
IdleCall == Call("idle", {}, {}, FALSE)

RaceInit ==
  /\ live = {"root"}
  /\ fh = "none"
  /\ ID = [o \in Objs |-> IF o = "root" THEN IdOf["root"] ELSE 0]
  /\ Size = [o \in Objs |-> 0]
  /\ hasChanges = [o \in Objs |-> FALSE]
  /\ hasData = [o \in Objs |-> FALSE]
  /\ arr = [o \in Objs |-> <<>>]
  /\ dlen = [o \in Objs |-> 0]
  /\ fetched = [o \in Objs |-> FALSE]
  /\ children = [o \in Objs |-> {}]
  /\ uploads = EmptyBag
  /\ rHas = {"a", "d", "x"}
  /\ rContent = [f \in Files |-> IF f = "a" THEN InitRemote ELSE <<>>]
  /\ net = <<>>
  /\ ret = RetSt("mount", "root", "OK")
  /\ Parent = [o \in Objs |-> NoParent]
  /\ lookup = <<>>
  /\ gc = [p \in Procs |-> IdleCall]
  /\ unflushed = {}

raceFixed == <<fh, hasChanges, hasData, arr, dlen, uploads, rHas, rContent, lookup, unflushed>>

\* "if !d.IsDir() || d.children != nil { return d.children, nil }"
GetChildrenTest(p) ==
  /\ Running
  /\ gc[p].pc = "idle"
  /\ net' = <<>>
  /\ IF Cached(RaceDir)
       THEN /\ gc' = [gc EXCEPT ![p] = Call("done", {}, children[RaceDir], FALSE)]
            /\ ret' = Ret("GetChildren", RaceDir, "OK", 0, <<>>, children[RaceDir], FALSE)
       ELSE /\ gc' = [gc EXCEPT ![p] = Call("get", {}, {}, FALSE)]
            /\ UNCHANGED ret
  /\ UNCHANGED <<live, fetched, children, ID, Size, Parent, raceFixed>>

\* "body, err := Get(ChildrenPath(d.Path()), auth)" and the error return
GetChildrenGet(p) ==
  /\ Running
  /\ gc[p].pc = "get"
  /\ net' = <<[kind |-> "list", item |-> RaceDir]>>
  /\ \/ /\ gc' = [gc EXCEPT ![p] = Call("make", RemoteListing(RaceDir), {}, FALSE)]
        /\ UNCHANGED ret
     \/ /\ gc' = [gc EXCEPT ![p] = Call("done", {}, {}, TRUE)]
        /\ ret' = Ret("GetChildren", RaceDir, "ERR", 0, <<>>, {}, TRUE)
  /\ UNCHANGED <<live, fetched, children, ID, Size, Parent, raceFixed>>

\* "d.children = make(map[string]*DriveItem)"
GetChildrenMake(p) ==
  /\ Running
  /\ gc[p].pc = "make"
  /\ net' = <<>>
  /\ gc' = [gc EXCEPT ![p].pc = "fill"]
  /\ fetched' = [fetched EXCEPT ![RaceDir] = TRUE]
  /\ children' = [children EXCEPT ![RaceDir] = {}]
  /\ UNCHANGED <<ret, live, ID, Size, Parent, raceFixed>>

\* one turn of the loop: "child.Parent.item = d; d.children[child.Name] = child".
\* Two calls that are both in the loop write the same map without a lock: the
\* runtime may let the write through or end the process (concurrent map writes)
GetChildrenInsert(p, c) ==
  /\ Running
  /\ gc[p].pc = "fill"
  /\ c \in gc[p].todo
  /\ net' = <<>>
  /\ \/ /\ gc' = [gc EXCEPT ![p].todo = @ \ {c}]
        /\ children' = [children EXCEPT ![RaceDir] = @ \cup {c}]
        /\ live' = live \cup {c}
        /\ ID' = [ID EXCEPT ![c] = IdOf[c]]
        /\ Size' = [Size EXCEPT ![c] = RemoteSize(c)]
        /\ Parent' = [Parent EXCEPT ![c] = [ID |-> IdOf[RaceDir], Path |-> RemoteParentPath(c),
                                            item |-> RaceDir]]
        /\ UNCHANGED ret
     \/ /\ \E q \in Procs \ {p} : gc[q].pc = "fill"
        /\ ret' = Crash("GetChildren", RaceDir)
        /\ UNCHANGED <<gc, children, live, ID, Size, Parent>>
  /\ UNCHANGED <<fetched, raceFixed>>

\* "return d.children, nil"
GetChildrenReturn(p) ==
  /\ Running
  /\ gc[p].pc = "fill"
  /\ gc[p].todo = {}
  /\ net' = <<>>
  /\ gc' = [gc EXCEPT ![p] = Call("done", {}, children[RaceDir], FALSE)]
  /\ ret' = Ret("GetChildren", RaceDir, "OK", 0, <<>>, children[RaceDir], FALSE)
  /\ UNCHANGED <<live, fetched, children, ID, Size, Parent, raceFixed>>

\* the caller comes back with another request
GetChildrenAgain(p) ==
  /\ Running
  /\ gc[p].pc = "done"
  /\ net' = <<>>
  /\ gc' = [gc EXCEPT ![p] = IdleCall]
  /\ UNCHANGED <<ret, live, fetched, children, ID, Size, Parent, raceFixed>>

RaceNext ==
  \/ \E p \in Procs : GetChildrenTest(p)
  \/ \E p \in Procs : GetChildrenGet(p)
  \/ \E p \in Procs : GetChildrenMake(p)
  \/ \E p \in Procs, c \in Objs : GetChildrenInsert(p, c)
  \/ \E p \in Procs : GetChildrenReturn(p)
  \/ \E p \in Procs : GetChildrenAgain(p)

RaceSpec == RaceInit /\ [][RaceNext]_vars

\* ---- one item written, flushed and uploaded ----
\* The runs of Write, Flush and the uploads Flush starts, every upload
\* succeeding; unflushed records the items written since their last Flush.
UploadNext ==
  \/ GetChildren("root")
  \/ NewDriveItem
  \/ \E i \in Files : Hold(i)
  \/ \E i \in Files : ~hasData[i] /\ FetchContent(i)
  \/ \E i \in Files, B \in Datas, off \in Offsets :
        Write(i, B, off) /\ unflushed' = unflushed \cup {i}
  \/ \E i \in Files : FlushWithin(i, MaxFlights) /\ unflushed' = unflushed \ {i}
  \/ \E u \in BagToSet(uploads) : UploadSend(u)
  \/ \E u \in BagToSet(uploads) : UploadOK(u)

UploadSpec == Init /\ [][UploadNext]_vars

\* C11: in every tree the code builds, Path(root) = "/" and the path of every
\* other item is the path of its parent, then "/", then its own name; the
\* children of the root included.
C11_PathDerivation ==
  /\ Path("root") = <<"/">>
  /\ \A c \in live \ {"root"} :
        Path(c) = Path(Parent[c].item) \o <<"/", Name(c)>>

\* ---- properties of the adapter ----
TreeAndRemote == <<live, fetched, children, itemVars, Parent, rHas, rContent>>
OnlyListings(calls) == \A k \in 1..Len(calls) : calls[k].kind = "list"
\* the name is that of an item the tree holds: it resolves without a call
InTree(name) == \E r \in GetItem(Abs(name)) : r.st = "OK" /\ r.net = <<>>

\* C12: GetAttr of a deny-listed path returns not-found with no resolver
\* lookup and no remote call, and leaves the tree as it is, whatever the cache
\* holds.
C12_DenyListed ==
  [][ret'.op = "GetAttr" =>
      \A name \in DenyNames :
        (Abs(name) \in ignoredFiles /\ GetAttr(name)) =>
           /\ ret'.st = "ENOENT"
           /\ lookup' = <<>>
           /\ net' = <<>>
           /\ UNCHANGED TreeAndRemote]_vars

\* GetAttr of a deny-listed path has returned not-found on a filled cache
C12_Witness ==
  /\ ret.op = "GetAttr" /\ ret.st = "ENOENT"
  /\ lookup = <<>> /\ net = <<>>
  /\ fetched["root"] /\ fetched["d"]

C14_NotFoundMapping ==
  [][(ret'.op \in {"GetAttr", "OpenDir", "Open", "Rmdir"}
        /\ \E k \in 1..Len(lookup') : lookup'[k].res = "NOTFOUND") =>
          /\ ret'.st = "ENOENT"
          /\ OnlyListings(net')]_vars

\* C15: when the item was resolved and the operation's own remote call (the
\* content fetch of Open, the create-folder call of Mkdir, the delete call of
\* Rmdir) fails, the operation returns the remote-I/O status.
C15_RemoteIOMapping ==
  [][\A k \in 1..Len(net') :
        (net'[k].kind \in {"content", "mkdir", "delete"} /\ ~net'[k].ok) =>
           ret'.st = "EREMOTEIO"]_vars

LastSlash(q) ==
  LET stops == {k \in 1..Len(q) : q[k] = "/"} IN
    IF stops = {} THEN 0 ELSE CHOOSE j \in stops : \A l \in stops : j >= l

\* C16: Mkdir returns a status and issues exactly one create-folder call, for
\* the folder named by the final segment of the path, in the parent named by
\* everything before that segment, whatever characters the segment has.
C16_MkdirSplit ==
  [][ret'.op = "Mkdir" =>
      \A name \in MkNames :
        Mkdir(name) =>
          LET q == StripSlash(Abs(name))
              k == LastSlash(q)
          IN /\ ret'.st # "PANIC"
             /\ Len(net') = 1
             /\ net'[1].kind = "mkdir"
             /\ net'[1].parent = SubSeq(q, 1, k)
             /\ net'[1].name = SubSeq(q, k + 1, Len(q))]_vars

\* C18: with this mount the only client, every directory whose children map is
\* non-nil lists exactly the names the remote directory has.
C18_CacheCoherence ==
  \A i \in live : (IsDir(i) /\ fetched[i]) => children[i] = RemoteListing(i)

\* C17: whatever the interleaving of concurrent calls on a directory, a call
\* that returns a non-nil children map returns one that has every entry of the
\* remote listing it was built from.
C17_NoPartialFill ==
  \A p \in DOMAIN gc :
    (gc[p].pc = "done" /\ ~gc[p].err) => RemoteListing(RaceDir) \subseteq gc[p].seen

\* C19: with every Write followed by a Flush and every upload succeeding, once
\* no upload is in flight the remote content of a written item is the content
\* of its buffer.
C19_NoLostWrite ==
  \A i \in Files :
    (i \in live /\ Running /\ hasData[i] /\ hasChanges[i]
       /\ i \notin unflushed /\ uploads = EmptyBag) =>
         (i \in rHas /\ rContent[i] = Content(i))

\* C20: the Size of a file item with buffered content is the length of that
\* content.
C20_SizeIsLength ==
  \A i \in Files : (i \in live /\ hasData[i]) => Size[i] = dlen[i]
====
